---- MODULE Spec2Model ----
(***************************************************************************)
(* DocumentProcessor.process (document_processor.py): one forward pass     *)
(* over the collaborators get_document_type, extract_text_from_document,   *)
(* perform_ocr, extract_images, extract_faces, analyze_document and        *)
(* analyze_image_content, every one of which may return a value or raise.  *)
(* Python values are encoded as follows:                                   *)
(*   str           a sequence of one-character strings                     *)
(*   None (text)   the one-element sequence NoneText                       *)
(*   dict          a function over its keys; {} is the empty function      *)
(*   a JSON value held under 'structured_info': JNull or JDict(map)        *)
(*   None (object) the record PyNone                                       *)
(***************************************************************************)
EXTENDS Integers, Sequences, FiniteSets, TLC

\* ---------------------------------------------------------------- bounds
MaxImages == 2
MaxFacesPerImage == 2
MaxFiles == 2

\* ------------------------------------------------------ program constants
\* `len(text_content) < 50`
MinTextLen == 50

\* mutant: no analysis attempted counts as not available
DefaultApiAvailable_False == FALSE

\* `api_available = True`
DefaultApiAvailable == TRUE

\* ------------------------------------------------------------ Python values
NoneText == <<"None">>
PyNone == [none |-> TRUE]
IsNone(v) == "none" \in DOMAIN v

EmptyDict == [k \in {} |-> TRUE]
JNull == [kind |-> "null"]
JDict(m) == [kind |-> "dict", map |-> m]

\* dict.get(key, default)
Get(d, k, default) == IF k \in DOMAIN d THEN d[k] ELSE default

\* d[key] = value
Put(d, k, v) == [x \in DOMAIN d \cup {k} |-> IF x = k THEN v ELSE d[x]]

\* dict.update(other): the keys of other overwrite
Update(d, other) ==
    [x \in DOMAIN d \cup DOMAIN other |-> IF x \in DOMAIN other THEN other[x] ELSE d[x]]

\* truth value of a str or None
TruthyText(t) == t # NoneText /\ Len(t) > 0

\* truth value of what is stored under 'structured_info'
TruthyInfo(v) == v.kind = "dict" /\ DOMAIN v.map # {}

\* truth value of a field value ("" stands for every empty value)
TruthyField(v) == v # ""

Text(n) == [i \in 1..n |-> "a"]

\* ------------------------------------------------- collaborators' outputs
DocTypes == {"pdf", "docx", "image", "unknown"}

NativeTexts == {NoneText, Text(0), Text(10), Text(MinTextLen - 1), Text(MinTextLen)}

OcrTexts == {NoneText, <<>>, <<"A", "B", "C">>}

ImageLists == {[i \in 1..n |-> i] : n \in 0..MaxImages}

\* face j found in image i; odd faces are bytes, even ones already str
Face(i, j) == [img |-> i, idx |-> j, enc |-> IF j % 2 = 1 THEN "bytes" ELSE "str"]

FaceLists(i) == {[j \in 1..n |-> Face(i, j)] : n \in 0..MaxFacesPerImage}

TextInfos ==
    { JNull,
      JDict(EmptyDict),
      JDict([personal_info |-> ""]),
      JDict([personal_info |-> "text"]),
      JDict([document_info |-> "text"]),
      JDict([personal_info |-> "", document_info |-> "text"]) }

TextAnalyses ==
    [api_available : BOOLEAN]
    \cup [api_available : BOOLEAN, structured_info : TextInfos]

ImageInfos ==
    { JNull,
      JDict([personal_info |-> "image"]),
      JDict([personal_info |-> "image", photo_info |-> "image"]) }

ImageAnalyses ==
    {PyNone}
    \cup [success : BOOLEAN, api_available : BOOLEAN]
    \cup [success : BOOLEAN, api_available : BOOLEAN, structured_info : ImageInfos]

\* ------------------------------------------------------------------ state
VARIABLES
    skip_faces,         \* argument of process
    pc,                 \* position in process
    doc_type,           \* local
    native_text,        \* what extract_text_from_document returned
    ocr_text,           \* local
    text_content,       \* local
    images,             \* local
    img_index,          \* position of `for img in images`
    face_images,        \* local
    detected,           \* what extract_faces returned, one list per call
    text_analysis,      \* what analyze_document returned
    document_analysis,  \* local
    api_available,      \* local
    need_face_analysis, \* local
    face_index,         \* position of `for i, face in enumerate(face_images[:1])`
    image_analysis,     \* local
    result,             \* the returned record, PyNone until process returns
    calls,              \* the collaborator calls made so far, in order
    raised,             \* an exception was raised inside the try block
    run,                \* 1 in the first invocation of process, 2 in the second
    first,              \* result and calls of the first invocation, once over
    replay,             \* what the collaborators answered in the first invocation
    caller,             \* the entry point in use: a web route or a CLI command
    cpc,                \* position in the web handler or in main.py's main
    epc,                \* position in document_extractor.py's main
    request,            \* the uploaded file name, or the path given to the CLI
    temp_exists,        \* the temporary upload file is on disk
    handed,             \* the file names passed to process, in order
    directory,          \* the file names in the batch directory
    files,              \* main.py's list `files`
    file_index,         \* position of `for i, file_path in enumerate(files)`
    extracted,          \* the file names handed to the extractor, in order
    json_only,          \* --json-only
    proc_result         \* what process returned to the caller

processVars ==
    <<skip_faces, pc, doc_type, native_text, ocr_text, text_content, images,
      img_index, face_images, detected, text_analysis, document_analysis,
      api_available, need_face_analysis, face_index, image_analysis,
      result, calls, raised, run, first, replay>>

callerVars ==
    <<caller, cpc, epc, request, temp_exists, handed, directory, files,
      file_index, extracted, json_only, proc_result>>

vars == <<processVars, callerVars>>

Call(fn, arg) == [fn |-> fn, arg |-> arg]

\* Deterministic collaborators: a call the first invocation made is answered
\* in the second invocation as it was answered then.
Replaying(fn) ==
    ~IsNone(replay) /\ \E i \in DOMAIN replay.calls : replay.calls[i].fn = fn

\* the values a call of fn may return
Outcomes(fn, all, field) ==
    IF Replaying(fn)
    THEN IF replay.error = fn THEN {} ELSE {replay[field]}
    ELSE all

\* a call of fn may raise
MayRaise(fn) == Replaying(fn) => replay.error = fn

\* the same for the k-th call of extract_faces
ReplayedFaceCalls ==
    IF IsNone(replay) THEN 0
    ELSE Cardinality({i \in DOMAIN replay.calls : replay.calls[i].fn = "extract_faces"})

FaceOutcomes(k, all) ==
    IF k <= ReplayedFaceCalls
    THEN IF k <= Len(replay.detected) THEN {replay.detected[k]} ELSE {}
    ELSE all

FacesMayRaise(k) == k <= ReplayedFaceCalls => k > Len(replay.detected)

\* no web request and no CLI command is under way
CallersIdle ==
    /\ caller = "none"
    /\ cpc = "idle"
    /\ epc = "idle"
    /\ request = <<>>
    /\ temp_exists = FALSE
    /\ handed = <<>>
    /\ directory = <<>>
    /\ files = <<>>
    /\ file_index = 1
    /\ extracted = <<>>
    /\ json_only = FALSE
    /\ proc_result = "none"

\* the locals of process where an invocation starts
ProcessEntry ==
    /\ pc = "get_document_type"
    /\ doc_type = "unset"
    /\ native_text = NoneText
    /\ ocr_text = NoneText
    /\ text_content = NoneText
    /\ images = <<>>
    /\ img_index = 1
    /\ face_images = <<>>
    /\ detected = <<>>
    /\ text_analysis = PyNone
    /\ document_analysis = EmptyDict
    /\ api_available = DefaultApiAvailable
    /\ need_face_analysis = FALSE
    /\ face_index = 1
    /\ image_analysis = PyNone
    /\ result = PyNone
    /\ calls = <<>>
    /\ raised = FALSE
    /\ run = 1
    /\ first = PyNone
    /\ replay = PyNone

Init ==
    /\ CallersIdle
    /\ skip_faces \in BOOLEAN
    /\ ProcessEntry

\* ------------------------------------------------- the decisions of process
\* mutant: the threshold compared with <= instead of <
NeedOcr_AtMost(text, type) ==
    (~TruthyText(text) \/ Len(text) <= MinTextLen) /\ type \in {"image", "pdf"}

\* `(not text_content or len(text_content) < 50) and doc_type in ['image', 'pdf']`
NeedOcr(text, type) ==
    (~TruthyText(text) \/ Len(text) < MinTextLen) /\ type \in {"image", "pdf"}

\* mutant: the OCR text replaces the native text
MergeOcr_Replaces(text, ocr) == IF TruthyText(ocr) THEN ocr ELSE text

\* `if ocr_text:` ... f"{text_content}\n\n{ocr_text}" or ocr_text
MergeOcr(text, ocr) ==
    IF TruthyText(ocr)
    THEN IF TruthyText(text) THEN text \o <<"\n", "\n">> \o ocr ELSE ocr
    ELSE text

\* mutant: the skip_faces flag is ignored
ShouldExtractFaces_Always(skip) == TRUE

\* `if not skip_faces:`
ShouldExtractFaces(skip) == ~skip

\* mutant: the new faces are put in front of the ones already found
ExtendFaces_Prepends(found, faces) == faces \o found

\* `face_images.extend(faces)`
ExtendFaces(found, faces) == found \o faces

\* mutant: the personal_info test is left out
NeedFaceAnalysis_InfoOnly(skip, faces, analysis) ==
    /\ ~skip
    /\ Len(faces) > 0
    /\ ~TruthyInfo(Get(analysis, "structured_info", JNull))

\* `not skip_faces and face_images and (not ...get('structured_info') or
\*  not ...get('structured_info', {}).get('personal_info'))`
NeedFaceAnalysis(skip, faces, analysis) ==
    /\ ~skip
    /\ Len(faces) > 0
    /\ \/ ~TruthyInfo(Get(analysis, "structured_info", JNull))
       \/ ~TruthyField(Get(Get(analysis, "structured_info", JDict(EmptyDict)).map,
                           "personal_info", ""))

\* mutant: the slice is left out, every face is analyzed
FacesToAnalyze_All(faces) == faces

\* `face_images[:1]`
FacesToAnalyze(faces) == SubSeq(faces, 1, IF Len(faces) < 1 THEN Len(faces) ELSE 1)

\* `image_analysis and image_analysis.get('success')`
ImageSucceeded(ia) == ~IsNone(ia) /\ Get(ia, "success", FALSE)

\* `'structured_info' in image_analysis and isinstance(..., dict)`
ImageHasInfo(ia) ==
    "structured_info" \in DOMAIN ia /\ ia["structured_info"].kind = "dict"

\* `document_analysis['structured_info'].update(...)` on a value that is not
\* a dict raises AttributeError
UpdateRaises(analysis, ia) ==
    /\ ImageSucceeded(ia)
    /\ ImageHasInfo(ia)
    /\ "structured_info" \in DOMAIN analysis
    /\ analysis["structured_info"].kind # "dict"

\* document_analysis after one iteration of the face loop that did not raise
MergeImageAnalysis(analysis, ia) ==
    IF ~ImageSucceeded(ia) THEN analysis
    ELSE LET withInfo == IF "structured_info" \notin DOMAIN analysis
                         THEN Put(analysis, "structured_info", JDict(EmptyDict))
                         ELSE analysis
         IN  IF ImageHasInfo(ia)
             THEN Put(withInfo, "structured_info",
                      JDict(Update(withInfo["structured_info"].map,
                                   ia["structured_info"].map)))
             ELSE withInfo

\* `api_available = api_available or image_analysis.get('api_available', False)`
MergeApiAvailable(api, ia) ==
    IF ImageSucceeded(ia) THEN api \/ Get(ia, "api_available", FALSE) ELSE api

\* `face.decode('utf-8') if isinstance(face, bytes) else face`
Decode(face) == IF face.enc = "bytes" THEN [face EXCEPT !.enc = "str"] ELSE face

\* mutant: only the faces that needed decoding are kept
SuccessRecord_DropsStr(type, analysis, faces) ==
    [document_type |-> type,
     extracted_info |-> analysis,
     face_count |-> Len(faces),
     face_images |-> LET kept == SelectSeq(faces, LAMBDA f : f.enc = "bytes")
                     IN  [i \in 1..Len(kept) |-> Decode(kept[i])],
     success |-> TRUE]

\* the record built at `result = {...}`
SuccessRecord(type, analysis, faces) ==
    [document_type |-> type,
     extracted_info |-> analysis,
     face_count |-> Len(faces),
     face_images |-> [i \in 1..Len(faces) |-> Decode(faces[i])],
     success |-> TRUE]

\* mutant: the failure record reports success
FailureRecord_Succeeds(msg) == [success |-> TRUE, error |-> msg]

\* the record built in `except Exception as e:`
FailureRecord(msg) == [success |-> FALSE, error |-> msg]

\* ---------------------------------------------------------------- actions
\* an exception inside the try block: control goes to the except clause
Except(msg) ==
    /\ result' = FailureRecord(msg)
    /\ raised' = TRUE
    /\ pc' = "done"

GetDocumentType ==
    /\ pc = "get_document_type"
    /\ calls' = Append(calls, Call("get_document_type", "file_path"))
    /\ \/ \E t \in Outcomes("get_document_type", DocTypes, "doc_type") :
            /\ doc_type' = t
            /\ pc' = "extract_text"
            /\ UNCHANGED <<result, raised>>
       \/ MayRaise("get_document_type") /\ Except("get_document_type") /\ UNCHANGED doc_type
    /\ UNCHANGED <<callerVars, run, first, replay, skip_faces, native_text, ocr_text, text_content, images,
                   img_index, face_images, detected, text_analysis, document_analysis,
                   api_available, need_face_analysis, face_index, image_analysis>>

ExtractText ==
    /\ pc = "extract_text"
    /\ calls' = Append(calls, Call("extract_text_from_document", doc_type))
    /\ \/ \E t \in Outcomes("extract_text_from_document", NativeTexts, "native_text") :
            /\ native_text' = t
            /\ text_content' = t
            /\ pc' = "perform_ocr"
            /\ UNCHANGED <<result, raised>>
       \/ /\ MayRaise("extract_text_from_document")
          /\ Except("extract_text_from_document")
          /\ UNCHANGED <<native_text, text_content>>
    /\ UNCHANGED <<callerVars, run, first, replay, skip_faces, doc_type, ocr_text, images, img_index, face_images, detected,
                   text_analysis, document_analysis, api_available,
                   need_face_analysis, face_index, image_analysis>>

\* mutant: OCR is tried again when it found no text
PerformOcr_Retries ==
    /\ pc = "perform_ocr"
    /\ IF NeedOcr(text_content, doc_type)
       THEN /\ calls' = Append(calls, Call("perform_ocr", doc_type))
            /\ \/ \E o \in Outcomes("perform_ocr", OcrTexts, "ocr_text") :
                    /\ ocr_text' = o
                    /\ text_content' = MergeOcr(text_content, o)
                    /\ pc' = IF TruthyText(o) THEN "extract_images" ELSE "perform_ocr"
                    /\ UNCHANGED <<result, raised>>
               \/ /\ MayRaise("perform_ocr")
                  /\ Except("perform_ocr")
                  /\ UNCHANGED <<ocr_text, text_content>>
       ELSE /\ pc' = "extract_images"
            /\ UNCHANGED <<calls, ocr_text, text_content, result, raised>>
    /\ UNCHANGED <<callerVars, run, first, replay, skip_faces, doc_type, native_text, images, img_index, face_images, detected,
                   text_analysis, document_analysis, api_available,
                   need_face_analysis, face_index, image_analysis>>

PerformOcr ==
    /\ pc = "perform_ocr"
    /\ IF NeedOcr(text_content, doc_type)
       THEN /\ calls' = Append(calls, Call("perform_ocr", doc_type))
            /\ \/ \E o \in Outcomes("perform_ocr", OcrTexts, "ocr_text") :
                    /\ ocr_text' = o
                    /\ text_content' = MergeOcr(text_content, o)
                    /\ pc' = "extract_images"
                    /\ UNCHANGED <<result, raised>>
               \/ /\ MayRaise("perform_ocr")
                  /\ Except("perform_ocr")
                  /\ UNCHANGED <<ocr_text, text_content>>
       ELSE /\ pc' = "extract_images"
            /\ UNCHANGED <<calls, ocr_text, text_content, result, raised>>
    /\ UNCHANGED <<callerVars, run, first, replay, skip_faces, doc_type, native_text, images, img_index, face_images, detected,
                   text_analysis, document_analysis, api_available,
                   need_face_analysis, face_index, image_analysis>>

ExtractImages ==
    /\ pc = "extract_images"
    /\ calls' = Append(calls, Call("extract_images", doc_type))
    /\ \/ \E imgs \in Outcomes("extract_images", ImageLists, "images") :
            /\ images' = imgs
            /\ pc' = "extract_faces"
            /\ UNCHANGED <<result, raised>>
       \/ MayRaise("extract_images") /\ Except("extract_images") /\ UNCHANGED images
    /\ UNCHANGED <<callerVars, run, first, replay, skip_faces, doc_type, native_text, ocr_text, text_content,
                   img_index, face_images, detected, text_analysis, document_analysis,
                   api_available, need_face_analysis, face_index, image_analysis>>

\* one iteration of `for img in images:`, or leaving the block
ExtractFaces ==
    /\ pc = "extract_faces"
    /\ IF ShouldExtractFaces(skip_faces) /\ img_index <= Len(images)
       THEN /\ calls' = Append(calls, Call("extract_faces", images[img_index]))
            /\ \/ \E faces \in FaceOutcomes(img_index, FaceLists(images[img_index])) :
                    /\ face_images' = ExtendFaces(face_images, faces)
                    /\ detected' = Append(detected, faces)
                    /\ img_index' = img_index + 1
                    /\ UNCHANGED <<pc, result, raised>>
               \/ /\ FacesMayRaise(img_index)
                  /\ Except("extract_faces")
                  /\ UNCHANGED <<face_images, detected, img_index>>
       ELSE /\ pc' = "analyze_document"
            /\ UNCHANGED <<calls, face_images, detected, img_index, result, raised>>
    /\ UNCHANGED <<callerVars, run, first, replay, skip_faces, doc_type, native_text, ocr_text, text_content, images,
                   text_analysis, document_analysis, api_available,
                   need_face_analysis, face_index, image_analysis>>

\* `document_analysis = {}` ... `need_face_analysis = ...`
AnalyzeDocument ==
    /\ pc = "analyze_document"
    /\ IF TruthyText(text_content)
       THEN /\ calls' = Append(calls, Call("analyze_document", text_content))
            /\ \/ \E a \in Outcomes("analyze_document", TextAnalyses, "text_object") :
                    /\ text_analysis' = a
                    /\ document_analysis' = a
                    /\ api_available' = Get(a, "api_available", FALSE)
                    /\ need_face_analysis' = NeedFaceAnalysis(skip_faces, face_images, a)
                    /\ pc' = "analyze_image_content"
                    /\ UNCHANGED <<result, raised>>
               \/ /\ MayRaise("analyze_document")
                  /\ Except("analyze_document")
                  /\ UNCHANGED <<text_analysis, document_analysis, api_available,
                                 need_face_analysis>>
       ELSE /\ document_analysis' = EmptyDict
            /\ api_available' = DefaultApiAvailable
            /\ need_face_analysis' = NeedFaceAnalysis(skip_faces, face_images, EmptyDict)
            /\ pc' = "analyze_image_content"
            /\ UNCHANGED <<calls, text_analysis, result, raised>>
    /\ UNCHANGED <<callerVars, run, first, replay, skip_faces, doc_type, native_text, ocr_text, text_content, images,
                   img_index, face_images, detected, face_index, image_analysis>>

\* one iteration of the loop over face_images[:1], or leaving the block
AnalyzeImageContent ==
    /\ pc = "analyze_image_content"
    /\ IF need_face_analysis /\ face_index <= Len(FacesToAnalyze(face_images))
       THEN /\ calls' = Append(calls, Call("analyze_image_content",
                                           FacesToAnalyze(face_images)[face_index]))
            /\ \/ \E ia \in Outcomes("analyze_image_content", ImageAnalyses, "image_analysis") :
                    /\ image_analysis' = ia
                    /\ IF UpdateRaises(document_analysis, ia)
                       THEN /\ Except("AttributeError")
                            /\ UNCHANGED <<document_analysis, api_available, face_index>>
                       ELSE /\ document_analysis' = MergeImageAnalysis(document_analysis, ia)
                            /\ api_available' = MergeApiAvailable(api_available, ia)
                            /\ face_index' = face_index + 1
                            /\ UNCHANGED <<pc, result, raised>>
               \/ /\ MayRaise("analyze_image_content")
                  /\ Except("analyze_image_content")
                  /\ UNCHANGED <<image_analysis, document_analysis, api_available,
                                 face_index>>
       ELSE /\ pc' = "assemble"
            /\ UNCHANGED <<calls, image_analysis, document_analysis, api_available,
                           face_index, result, raised>>
    /\ UNCHANGED <<callerVars, run, first, replay, skip_faces, doc_type, native_text, ocr_text, text_content, images,
                   img_index, face_images, detected, text_analysis, need_face_analysis>>

\* `document_analysis['api_available'] = api_available` ... `return result`
Assemble ==
    /\ pc = "assemble"
    /\ document_analysis' = Put(document_analysis, "api_available", api_available)
    /\ result' = SuccessRecord(doc_type, document_analysis', face_images)
    /\ pc' = "done"
    /\ UNCHANGED <<callerVars, run, first, replay, skip_faces, doc_type, native_text, ocr_text, text_content, images,
                   img_index, face_images, detected, text_analysis, api_available,
                   need_face_analysis, face_index, image_analysis, calls, raised>>

Next ==
    \/ GetDocumentType
    \/ ExtractText
    \/ PerformOcr
    \/ ExtractImages
    \/ ExtractFaces
    \/ AnalyzeDocument
    \/ AnalyzeImageContent
    \/ Assemble

Spec == Init /\ [][Next]_vars

\* The caller invokes process a second time on the same file with the same
\* flag. The collaborators answer as before. Whether analyze_document hands
\* out the very dict it handed out before (process has written to it since)
\* or an equal new one is the collaborator's business: both happen.
Reinvoke ==
    /\ pc = "done"
    /\ run = 1
    /\ run' = 2
    /\ first' = [result |-> result, calls |-> calls]
    /\ \E same_object \in BOOLEAN :
          replay' = [calls |-> calls,
                     error |-> IF raised THEN result.error ELSE "",
                     doc_type |-> doc_type,
                     native_text |-> native_text,
                     ocr_text |-> ocr_text,
                     images |-> images,
                     detected |-> detected,
                     text_object |-> IF same_object THEN document_analysis
                                     ELSE text_analysis,
                     image_analysis |-> image_analysis]
    /\ pc' = "get_document_type"
    /\ doc_type' = "unset"
    /\ native_text' = NoneText
    /\ ocr_text' = NoneText
    /\ text_content' = NoneText
    /\ images' = <<>>
    /\ img_index' = 1
    /\ face_images' = <<>>
    /\ detected' = <<>>
    /\ text_analysis' = PyNone
    /\ document_analysis' = EmptyDict
    /\ api_available' = DefaultApiAvailable
    /\ need_face_analysis' = FALSE
    /\ face_index' = 1
    /\ image_analysis' = PyNone
    /\ result' = PyNone
    /\ calls' = <<>>
    /\ raised' = FALSE
    /\ UNCHANGED <<skip_faces, callerVars>>

NextTwice ==
    \/ GetDocumentType
    \/ ExtractText
    \/ PerformOcr
    \/ ExtractImages
    \/ ExtractFaces
    \/ AnalyzeDocument
    \/ AnalyzeImageContent
    \/ Assemble
    \/ Reinvoke

SpecTwice == Init /\ [][NextTwice]_vars

\* ------------------------------------------------------------- the callers
\* config.py: ALLOWED_EXTENSIONS
ALLOWED_EXTENSIONS == {"pdf", "png", "jpg", "jpeg", "docx", "doc"}

\* main.py: `extensions`, each used in the pattern "*" + ext
BatchExtensions == <<"pdf", "docx", "jpg", "jpeg", "png", "tif", "tiff", "bmp">>

\* A file name is a sequence of pieces, "." being the separator.
NoUpload == <<"no document part">>

FileNames ==
    { <<"a">>,
      <<"a", ".", "pdf">>,
      <<"a", ".", "PDF">>,
      <<"a", ".", "doc">>,
      <<"a", ".", "txt">>,
      <<"a", ".", "tif">>,
      <<"a", ".", "txt", ".", "pdf">> }

Uploads == {NoUpload, <<>>} \cup FileNames

Directories == UNION {[1..n -> FileNames \ {<<"a">>}] : n \in 0..MaxFiles}

ProcResults == {"success", "degraded", "failure"}

\* str.lower() on a piece
Lower(piece) ==
    CASE piece = "PDF" -> "pdf"
      [] OTHER -> piece

HasDot(name) == \E i \in DOMAIN name : name[i] = "."

\* filename.rsplit('.', 1)[1]
AfterLastDot(name) ==
    LET last == CHOOSE i \in DOMAIN name :
                    name[i] = "." /\ \A j \in DOMAIN name : j > i => name[j] # "."
    IN  SubSeq(name, last + 1, Len(name))

\* app.py: allowed_file
allowed_file(name) ==
    /\ HasDot(name)
    /\ Len(AfterLastDot(name)) = 1
    /\ Lower(AfterLastDot(name)[1]) \in ALLOWED_EXTENSIONS

\* directory.glob("*" + ext): the names that end in ext as written
Glob(dir, ext) ==
    SelectSeq(dir, LAMBDA name : HasDot(name) /\ AfterLastDot(name) = <<ext>>)

\* `for ext in extensions: files.extend(directory.glob(...))`
RECURSIVE Collect(_, _)
Collect(dir, exts) ==
    IF exts = <<>> THEN <<>> ELSE Glob(dir, Head(exts)) \o Collect(dir, Tail(exts))

CallerKinds == {"process_document", "api_process", "extract", "batch"}

InitCallers ==
    /\ skip_faces = FALSE
    /\ ProcessEntry
    /\ caller \in CallerKinds
    /\ cpc = "start"
    /\ epc = "idle"
    /\ request \in IF caller \in {"process_document", "api_process"} THEN Uploads
                   ELSE IF caller = "extract" THEN FileNames
                   ELSE {<<>>}
    /\ temp_exists = FALSE
    /\ handed = <<>>
    /\ directory \in IF caller = "batch" THEN Directories ELSE {<<>>}
    /\ files = <<>>
    /\ file_index = 1
    /\ extracted = <<>>
    /\ json_only \in IF caller \in {"extract", "batch"} THEN BOOLEAN ELSE {FALSE}
    /\ proc_result = "none"

\* `if 'document' not in request.files` ... `if file and allowed_file(...)`
Accepted(upload) == upload # NoUpload /\ upload # <<>> /\ allowed_file(upload)

\* --- app.py: process_document
PdCheck ==
    /\ caller = "process_document"
    /\ cpc = "start"
    /\ cpc' = IF Accepted(request) THEN "save" ELSE "returned"
    /\ UNCHANGED <<processVars, caller, epc, request, temp_exists, handed, directory,
                   files, file_index, extracted, json_only, proc_result>>

\* `file.save(filepath)`: the file is written, or an exception leaves it
\* written in part or not at all
PdSave ==
    /\ caller = "process_document"
    /\ cpc = "save"
    /\ \/ temp_exists' = TRUE /\ cpc' = "process"
       \/ temp_exists' \in BOOLEAN /\ cpc' = "except"
    /\ UNCHANGED <<processVars, caller, epc, request, handed, directory,
                   files, file_index, extracted, json_only, proc_result>>

\* `result = doc_processor.process(filepath)`: process returns a record
PdProcess ==
    /\ caller = "process_document"
    /\ cpc = "process"
    /\ handed' = Append(handed, request)
    /\ proc_result' \in ProcResults
    /\ cpc' = "store"
    /\ UNCHANGED <<processVars, caller, epc, request, temp_exists, directory,
                   files, file_index, extracted, json_only>>

\* `session[...] = json.dumps(result)`
PdStore ==
    /\ caller = "process_document"
    /\ cpc = "store"
    /\ cpc' \in {"remove", "except"}
    /\ UNCHANGED <<processVars, caller, epc, request, temp_exists, handed, directory,
                   files, file_index, extracted, json_only, proc_result>>

\* `os.remove(filepath)` and the redirect
PdRemove ==
    /\ caller = "process_document"
    /\ cpc = "remove"
    /\ temp_exists' = FALSE
    /\ cpc' = "returned"
    /\ UNCHANGED <<processVars, caller, epc, request, handed, directory,
                   files, file_index, extracted, json_only, proc_result>>

\* `except Exception as e:` ... `if os.path.exists(filepath): os.remove(filepath)`
PdExcept ==
    /\ caller = "process_document"
    /\ cpc = "except"
    /\ temp_exists' = FALSE
    /\ cpc' = "returned"
    /\ UNCHANGED <<processVars, caller, epc, request, handed, directory,
                   files, file_index, extracted, json_only, proc_result>>

\* --- app.py: api_process
ApiCheck ==
    /\ caller = "api_process"
    /\ cpc = "start"
    /\ cpc' = IF Accepted(request) THEN "tempfile" ELSE "returned"
    /\ UNCHANGED <<processVars, caller, epc, request, temp_exists, handed, directory,
                   files, file_index, extracted, json_only, proc_result>>

\* `temp_file = tempfile.NamedTemporaryFile(delete=False)`
ApiTempFile ==
    /\ caller = "api_process"
    /\ cpc = "tempfile"
    /\ \/ temp_exists' = TRUE /\ cpc' = "save"
       \/ temp_exists' = FALSE /\ cpc' = "except"
    /\ UNCHANGED <<processVars, caller, epc, request, handed, directory,
                   files, file_index, extracted, json_only, proc_result>>

\* `file.save(temp_file.name)`, `temp_file.close()`
ApiSave ==
    /\ caller = "api_process"
    /\ cpc = "save"
    /\ cpc' \in {"process", "except"}
    /\ UNCHANGED <<processVars, caller, epc, request, temp_exists, handed, directory,
                   files, file_index, extracted, json_only, proc_result>>

\* `result = doc_processor.process(temp_file.name)`
ApiProcess ==
    /\ caller = "api_process"
    /\ cpc = "process"
    /\ handed' = Append(handed, request)
    /\ proc_result' \in ProcResults
    /\ cpc' = "unlink"
    /\ UNCHANGED <<processVars, caller, epc, request, temp_exists, directory,
                   files, file_index, extracted, json_only>>

\* `os.unlink(temp_file.name)`
ApiUnlink ==
    /\ caller = "api_process"
    /\ cpc = "unlink"
    /\ temp_exists' = FALSE
    /\ cpc' = "jsonify"
    /\ UNCHANGED <<processVars, caller, epc, request, handed, directory,
                   files, file_index, extracted, json_only, proc_result>>

\* `return jsonify(result)`
ApiJsonify ==
    /\ caller = "api_process"
    /\ cpc = "jsonify"
    /\ cpc' \in {"returned", "except"}
    /\ UNCHANGED <<processVars, caller, epc, request, temp_exists, handed, directory,
                   files, file_index, extracted, json_only, proc_result>>

\* `except Exception as e:` ... `return jsonify({'error': str(e)}), 500`
ApiExcept ==
    /\ caller = "api_process"
    /\ cpc = "except"
    /\ cpc' = "returned"
    /\ UNCHANGED <<processVars, caller, epc, request, temp_exists, handed, directory,
                   files, file_index, extracted, json_only, proc_result>>

\* --- document_extractor.py: main
\* `if not os.path.isfile(doc_path): ... sys.exit(1)`
ExFileCheck ==
    /\ epc = "isfile"
    /\ epc' \in {"output_dir", "exit"}
    /\ UNCHANGED <<processVars, caller, cpc, request, temp_exists, handed, directory,
                   files, file_index, extracted, json_only, proc_result>>

\* `os.makedirs(output_dir, exist_ok=True)`, before the try block
ExOutputDir ==
    /\ epc = "output_dir"
    /\ epc' \in {"process", "raised"}
    /\ UNCHANGED <<processVars, caller, cpc, request, temp_exists, handed, directory,
                   files, file_index, extracted, json_only, proc_result>>

\* `result = processor.process(doc_path, **processor_params)`
ExProcess ==
    /\ epc = "process"
    /\ handed' = Append(handed, request)
    /\ proc_result' \in ProcResults
    /\ epc' = "save_json"
    /\ UNCHANGED <<processVars, caller, cpc, request, temp_exists, directory,
                   files, file_index, extracted, json_only>>

\* `with open(result_path, 'w') as f: json.dump(...)`; an exception goes to
\* `except Exception` and from there to sys.exit(1)
ExSaveJson ==
    /\ epc = "save_json"
    /\ epc' \in {"report", "exit"}
    /\ UNCHANGED <<processVars, caller, cpc, request, temp_exists, handed, directory,
                   files, file_index, extracted, json_only, proc_result>>

\* `if args.json_only: return`, `if result.get('success'): ...`,
\* `else: ... sys.exit(1)`
ExReport ==
    /\ epc = "report"
    /\ IF json_only THEN epc' = "returned"
       ELSE IF proc_result \in {"success", "degraded"} THEN epc' \in {"returned", "exit"}
       ELSE epc' = "exit"
    /\ UNCHANGED <<processVars, caller, cpc, request, temp_exists, handed, directory,
                   files, file_index, extracted, json_only, proc_result>>

\* --- main.py: main, command extract
ExtractCommand ==
    /\ caller = "extract"
    /\ cpc = "start"
    /\ extracted' = Append(extracted, request)
    /\ epc' = "isfile"
    /\ cpc' = "in_extractor"
    /\ UNCHANGED <<processVars, caller, request, temp_exists, handed, directory,
                   files, file_index, json_only, proc_result>>

ExtractFinish ==
    /\ caller = "extract"
    /\ cpc = "in_extractor"
    /\ epc \in {"returned", "exit", "raised"}
    /\ cpc' = IF epc = "returned" THEN "returned" ELSE "exited"
    /\ UNCHANGED <<processVars, caller, epc, request, temp_exists, handed, directory,
                   files, file_index, extracted, json_only, proc_result>>

\* --- main.py: main, command batch
\* `files = []` ... `if not files: ... sys.exit(0)`
BatchCollect ==
    /\ caller = "batch"
    /\ cpc = "start"
    /\ files' = Collect(directory, BatchExtensions)
    /\ cpc' = IF files' = <<>> THEN "exited" ELSE "loop"
    /\ UNCHANGED <<processVars, caller, epc, request, temp_exists, handed, directory,
                   file_index, extracted, json_only, proc_result>>

\* one iteration up to `extractor_main()`
BatchCallExtractor ==
    /\ caller = "batch"
    /\ cpc = "loop"
    /\ file_index <= Len(files)
    /\ request' = files[file_index]
    /\ extracted' = Append(extracted, files[file_index])
    /\ epc' = "isfile"
    /\ cpc' = "in_extractor"
    /\ UNCHANGED <<processVars, caller, temp_exists, handed, directory, files,
                   file_index, json_only, proc_result>>

\* extractor_main returned, or raised an Exception that `except Exception`
\* catches: "Continuing with next document..."
BatchContinue ==
    /\ caller = "batch"
    /\ cpc = "in_extractor"
    /\ epc \in {"returned", "raised"}
    /\ file_index' = file_index + 1
    /\ epc' = "idle"
    /\ cpc' = "loop"
    /\ UNCHANGED <<processVars, caller, request, temp_exists, handed, directory, files,
                   extracted, json_only, proc_result>>

\* extractor_main called sys.exit: SystemExit is not an Exception, it leaves
\* the loop and main
BatchAbort ==
    /\ caller = "batch"
    /\ cpc = "in_extractor"
    /\ epc = "exit"
    /\ cpc' = "exited"
    /\ UNCHANGED <<processVars, caller, epc, request, temp_exists, handed, directory,
                   files, file_index, extracted, json_only, proc_result>>

\* "Batch processing complete."
BatchComplete ==
    /\ caller = "batch"
    /\ cpc = "loop"
    /\ file_index > Len(files)
    /\ cpc' = "complete"
    /\ UNCHANGED <<processVars, caller, epc, request, temp_exists, handed, directory,
                   files, file_index, extracted, json_only, proc_result>>

NextCallers ==
    \/ PdCheck
    \/ PdSave
    \/ PdProcess
    \/ PdStore
    \/ PdRemove
    \/ PdExcept
    \/ ApiCheck
    \/ ApiTempFile
    \/ ApiSave
    \/ ApiProcess
    \/ ApiUnlink
    \/ ApiJsonify
    \/ ApiExcept
    \/ ExFileCheck
    \/ ExOutputDir
    \/ ExProcess
    \/ ExSaveJson
    \/ ExReport
    \/ ExtractCommand
    \/ ExtractFinish
    \/ BatchCollect
    \/ BatchCallExtractor
    \/ BatchContinue
    \/ BatchAbort
    \/ BatchComplete

SpecCallers == InitCallers /\ [][NextCallers]_vars

\* ------------------------------------------------- vocabulary of the claims
Done == pc = "done"

Called(fn) == \E i \in DOMAIN calls : calls[i].fn = fn

CallsOf(fn) == Cardinality({i \in DOMAIN calls : calls[i].fn = fn})

LocalStages == {"get_document_type", "extract_text_from_document", "perform_ocr",
                "extract_images", "extract_faces"}

AnalyzerStages == {"analyze_document", "analyze_image_content"}

\* the exception caught came out of stage fn
RaisedIn(fn) == raised /\ result.error = fn

LocalFault == \E fn \in LocalStages : RaisedIn(fn)

AnalyzerRaised == \E fn \in AnalyzerStages : RaisedIn(fn)

\* every analyzer call made so far returned a record with api_available false
AnalyzerUnreachable ==
    /\ ~AnalyzerRaised
    /\ Called("analyze_document") =>
          ~IsNone(text_analysis) /\ ~Get(text_analysis, "api_available", FALSE)
    /\ Called("analyze_image_content") =>
          ~IsNone(image_analysis) /\ ~Get(image_analysis, "api_available", FALSE)

\* C1: whenever the remote analyzer is unreachable and no local stage raised,
\* process returns success = true with extracted_info.api_available = false.
C1_UnreachableMeansDegraded ==
    (Done /\ AnalyzerUnreachable /\ ~LocalFault) =>
        /\ result.success = TRUE
        /\ result.extracted_info["api_available"] = FALSE

\* C2: when no local stage raises and the analyzers return without raising,
\* process returns success = true, whatever the analyzers returned.
C2_FailureOnlyOnLocalFault ==
    (Done /\ ~LocalFault /\ ~AnalyzerRaised) => result.success = TRUE

\* C3: process always comes to return a record; the record is
\* {success: false, error: <message>} and nothing else exactly when an
\* exception was raised, and otherwise has success = true and no error field.
C3_FaultsBecomeFailureRecords ==
    /\ ~Done => IsNone(result) /\ ENABLED Next
    /\ Done =>
        /\ ~IsNone(result)
        /\ result.success = FALSE <=> raised
        /\ raised => DOMAIN result = {"success", "error"}
        /\ ~raised => result.success = TRUE /\ "error" \notin DOMAIN result

C3_Witness ==
    /\ Done
    /\ RaisedIn("extract_faces")
    /\ Len(face_images) > 0
    /\ result = [success |-> FALSE, error |-> "extract_faces"]

\* C4: the returned record has face_count = length(face_images); the two
\* fields are present in every success record and absent together otherwise.
C4_FaceCountIsLength ==
    Done =>
        /\ result.success = TRUE => {"face_count", "face_images"} \subseteq DOMAIN result
        /\ "face_count" \in DOMAIN result <=> "face_images" \in DOMAIN result
        /\ "face_count" \in DOMAIN result =>
              result.face_count = Len(result.face_images)

C4_Witness ==
    Done /\ result.success = TRUE /\ result.face_count = 3 /\ Len(images) = 2

\* the OCR decision has been taken in this invocation
OcrDecided ==
    /\ pc \notin {"get_document_type", "extract_text", "perform_ocr"}
    /\ ~RaisedIn("get_document_type")
    /\ ~RaisedIn("extract_text_from_document")

NativeEmpty == native_text = NoneText \/ Len(native_text) = 0

\* C5: perform_ocr is called if and only if the document type is image or pdf
\* and the native text is empty, absent or shorter than 50 characters; it is
\* called at most once.
C5_OcrIffShortTextOfRaster ==
    /\ CallsOf("perform_ocr") <= 1
    /\ OcrDecided =>
          (Called("perform_ocr") <=>
              /\ doc_type \in {"image", "pdf"}
              /\ NativeEmpty \/ Len(native_text) < 50)
    /\ ~OcrDecided => ~Called("perform_ocr")

C5_Witness ==
    /\ OcrDecided
    /\ doc_type = "pdf"
    /\ Len(native_text) = 49
    /\ native_text # NoneText
    /\ Called("perform_ocr")

\* perform_ocr was called and returned
OcrReturned ==
    Called("perform_ocr") /\ pc # "perform_ocr" /\ ~RaisedIn("perform_ocr")

OcrEmpty == ocr_text = NoneText \/ Len(ocr_text) = 0

\* the text the claim C6 describes
BlankLine == <<"\n", "\n">>

C6_Expected ==
    IF OcrEmpty THEN native_text
    ELSE IF NativeEmpty THEN ocr_text
    ELSE native_text \o BlankLine \o ocr_text

\* C6: once OCR has run, the text content is the native text, a blank line
\* and the OCR text when both are non-empty, the OCR text alone when the
\* native text was empty, and the native text when OCR found nothing; this is
\* the text handed to analyze_document.
C6_OcrTextIsAppended ==
    OcrReturned =>
        /\ text_content = C6_Expected
        /\ \A i \in DOMAIN calls :
              calls[i].fn = "analyze_document" => calls[i].arg = C6_Expected
        /\ ~NativeEmpty =>
              SubSeq(text_content, 1, Len(native_text)) = native_text

C6_Witness ==
    /\ OcrReturned
    /\ doc_type = "image"
    /\ native_text = Text(10)
    /\ ocr_text = <<"A", "B", "C">>
    /\ Called("analyze_document")
    /\ Len(text_content) = 15

\* the decision on the face-image fallback has been taken
FallbackDecided ==
    \/ pc = "assemble"
    \/ Done /\ (~raised \/ RaisedIn("analyze_image_content") \/ RaisedIn("AttributeError"))

\* the text analysis produced no structured_info
NoTextInfo ==
    \/ IsNone(text_analysis)
    \/ "structured_info" \notin DOMAIN text_analysis
    \/ text_analysis["structured_info"].kind # "dict"
    \/ DOMAIN text_analysis["structured_info"].map = {}

TextInfoMap == text_analysis["structured_info"].map

\* C7 as stated: the fallback is triggered if and only if skip_faces is false,
\* a face was detected and the text analysis produced no structured_info or
\* one without a personal_info entry.
C7_FallbackIffNoPersonalEntry ==
    FallbackDecided =>
        (Called("analyze_image_content") <=>
            /\ ~skip_faces
            /\ Len(face_images) >= 1
            /\ NoTextInfo \/ "personal_info" \notin DOMAIN TextInfoMap)

\* C7 amended: the fallback is triggered if and only if skip_faces is false,
\* a face was detected and the text analysis produced no structured_info or
\* one whose personal_info entry is missing or empty.
C7_FallbackIffNoPersonalInfo ==
    /\ skip_faces => ~Called("analyze_image_content")
    /\ FallbackDecided =>
          (Called("analyze_image_content") <=>
              /\ ~skip_faces
              /\ Len(face_images) >= 1
              /\ \/ NoTextInfo
                 \/ "personal_info" \notin DOMAIN TextInfoMap
                 \/ TextInfoMap["personal_info"] = "")

C7_Witness ==
    /\ FallbackDecided
    /\ Called("analyze_image_content")
    /\ ~NoTextInfo
    /\ "personal_info" \in DOMAIN TextInfoMap

\* C8: analyze_image_content is called at most once in an invocation, and its
\* argument is the first detected face.
C8_OnlyFirstFaceAnalyzed ==
    /\ CallsOf("analyze_image_content") <= 1
    /\ \A i \in DOMAIN calls :
          calls[i].fn = "analyze_image_content" =>
              Len(face_images) >= 1 /\ calls[i].arg = face_images[1]

C8_Witness ==
    /\ Done
    /\ Len(face_images) >= 3
    /\ CallsOf("analyze_image_content") = 1
    /\ result.success = TRUE

\* C9: with skip_faces set, extract_faces is never called and a returned
\* success record has face_count 0 and no face images, whatever images
\* extract_images returned.
C9_SkipFacesMeansNoFaces ==
    skip_faces =>
        /\ ~Called("extract_faces")
        /\ face_images = <<>>
        /\ Done =>
              /\ Get(result, "face_count", 0) = 0
              /\ Get(result, "face_images", <<>>) = <<>>
              /\ result.success = TRUE => result.face_count = 0 /\ result.face_images = <<>>

C9_Witness ==
    Done /\ skip_faces /\ result.success = TRUE /\ Len(images) >= 1

\* analyze_image_content was called and returned
ImageReturned ==
    /\ Called("analyze_image_content")
    /\ ~RaisedIn("analyze_image_content")
    /\ (pc = "assemble" \/ Done)

\* structured_info and api_available as the text analysis left them
TextInfoOrEmpty == IF NoTextInfo THEN EmptyDict ELSE TextInfoMap

TextApi ==
    IF IsNone(text_analysis) THEN TRUE ELSE Get(text_analysis, "api_available", FALSE)

ResultInfo == result.extracted_info["structured_info"].map

\* C10: after a successful image analysis the result's structured_info holds
\* every image-analysis key with the image-analysis value and every other
\* text-analysis key unchanged, and api_available is the OR of the two
\* analyses; after an unsuccessful one, structured_info and api_available are
\* those of the text analysis.
C10_MergeOverwritesOnCollision ==
    (Done /\ ImageReturned) =>
        /\ result.success = TRUE
        /\ ImageSucceeded(image_analysis) =>
              /\ result.extracted_info["api_available"] =
                    (TextApi \/ Get(image_analysis, "api_available", FALSE))
              /\ ImageHasInfo(image_analysis) =>
                    /\ \A k \in DOMAIN image_analysis["structured_info"].map :
                          /\ k \in DOMAIN ResultInfo
                          /\ ResultInfo[k] = image_analysis["structured_info"].map[k]
                    /\ \A k \in DOMAIN TextInfoOrEmpty :
                          k \notin DOMAIN image_analysis["structured_info"].map =>
                              k \in DOMAIN ResultInfo /\ ResultInfo[k] = TextInfoOrEmpty[k]
        /\ ~ImageSucceeded(image_analysis) =>
              /\ result.extracted_info["api_available"] = TextApi
              /\ IF IsNone(text_analysis) \/ "structured_info" \notin DOMAIN text_analysis
                 THEN "structured_info" \notin DOMAIN result.extracted_info
                 ELSE result.extracted_info["structured_info"] =
                          text_analysis["structured_info"]

\* the place of a collaborator in the pass
Rank(fn) ==
    CASE fn = "get_document_type" -> 1
      [] fn = "extract_text_from_document" -> 2
      [] fn = "perform_ocr" -> 3
      [] fn = "extract_images" -> 4
      [] fn = "extract_faces" -> 5
      [] fn = "analyze_document" -> 6
      [] fn = "analyze_image_content" -> 7

\* the calls of extract_faces, in order
FaceCalls == SelectSeq(calls, LAMBDA c : c.fn = "extract_faces")

\* C14: the collaborator calls of one invocation are made in the order
\* get_document_type, extract_text_from_document, perform_ocr, extract_images,
\* extract_faces (image by image), analyze_document, analyze_image_content;
\* no earlier stage is called again after a later one, every stage but
\* extract_faces is called at most once, and nothing is called once the
\* result is returned.
C14_CallsInFixedOrder ==
    /\ \A i, j \in DOMAIN calls :
          i < j =>
              /\ Rank(calls[i].fn) <= Rank(calls[j].fn)
              /\ Rank(calls[i].fn) = Rank(calls[j].fn) => calls[i].fn = "extract_faces"
    /\ \A i \in DOMAIN calls :
          /\ i = 1 => calls[i].fn = "get_document_type"
          /\ i = 2 => calls[i].fn = "extract_text_from_document"
          /\ Rank(calls[i].fn) > 4 => Called("extract_images")
    /\ Len(FaceCalls) <= Len(images)
    /\ \A k \in DOMAIN FaceCalls : FaceCalls[k].arg = images[k]
    /\ ~IsNone(result) => Done

C14_Witness ==
    /\ Done
    /\ result.success = TRUE
    /\ \A fn \in LocalStages \cup AnalyzerStages : Called(fn)
    /\ Len(FaceCalls) = 2
    /\ Len(calls) = 8

\* the decision on the text analysis has been taken
AnalysisDecided ==
    \/ pc \in {"analyze_image_content", "assemble"}
    \/ Done /\ (~raised \/ AnalyzerRaised \/ RaisedIn("AttributeError"))

\* the face fallback merged something into the analysis
FallbackMerged == Called("analyze_image_content") /\ ImageSucceeded(image_analysis)

\* C15: analyze_document is called if and only if the text content after the
\* OCR step is non-empty; with no text and no merge by the face fallback the
\* returned extracted_info is exactly {api_available: true}.
C15_NoTextMeansAvailable ==
    /\ AnalysisDecided => (Called("analyze_document") <=> TruthyText(text_content))
    /\ ~AnalysisDecided => ~Called("analyze_document")
    /\ (Done /\ ~raised /\ ~TruthyText(text_content) /\ ~FallbackMerged) =>
          /\ DOMAIN result.extracted_info = {"api_available"}
          /\ result.extracted_info["api_available"] = TRUE

C15_Witness ==
    /\ Done
    /\ ~raised
    /\ ~TruthyText(text_content)
    /\ Called("perform_ocr")
    /\ Called("analyze_image_content")
    /\ ~FallbackMerged
    /\ ~Called("analyze_document")
    /\ result.extracted_info["api_available"] = TRUE

RECURSIVE Flatten(_)
Flatten(lists) ==
    IF lists = <<>> THEN <<>> ELSE Head(lists) \o Flatten(Tail(lists))

\* C16: without skip_faces, extract_faces is called on the images in image
\* order, once on each when the pass completes, and the returned face_images
\* are the faces of the per-image lists in image order and detection order,
\* each as a str, none dropped, duplicated or moved.
C16_FacesConcatenatedInOrder ==
    ~skip_faces =>
        /\ Len(FaceCalls) <= Len(images)
        /\ \A k \in DOMAIN FaceCalls : FaceCalls[k].arg = images[k]
        /\ face_images = Flatten(detected)
        /\ (Done /\ ~raised) =>
              /\ Len(FaceCalls) = Len(images)
              /\ Len(detected) = Len(images)
              /\ Len(result.face_images) = Len(Flatten(detected))
              /\ \A i \in DOMAIN result.face_images :
                    result.face_images[i] = Decode(Flatten(detected)[i])

C16_Witness ==
    /\ Done
    /\ ~raised
    /\ ~skip_faces
    /\ Len(images) = 2
    /\ Len(detected) = 2
    /\ Len(detected[1]) = 2
    /\ Len(detected[2]) = 1
    /\ result.face_count = 3

\* C11: a second invocation on the same file with the same flag and
\* deterministic collaborators returns the record the first one returned and
\* makes the collaborator calls the first one made.
C11_SecondInvocationIdentical ==
    (Done /\ run = 2) =>
        /\ result = first.result
        /\ calls = first.calls

\* C12: every file name handed to process has an extension of the allow-list.
C12_OnlyAllowedFilesReachProcess ==
    \A i \in DOMAIN handed : allowed_file(handed[i])

\* C13: when a web handler has returned, no temporary upload file is left.
C13_TempFileDeleted ==
    (caller \in {"process_document", "api_process"} /\ cpc = "returned") => ~temp_exists

\* C17: a batch over a non-empty list of files ends by reporting completion,
\* every collected file having been handed to the extractor.
C17_BatchProcessesEveryFile ==
    (caller = "batch" /\ cpc \in {"complete", "exited"} /\ files # <<>>) =>
        /\ cpc = "complete"
        /\ extracted = files

====
